---- MODULE Spec2Model ----
(***************************************************************************)
(* Model of the array-backed double-ended queue of core/lists.go (type     *)
(* Deque and its methods).  The receiver is either the nil pointer or a    *)
(* pointer to a Deque whose fields are the record q.  Each exported method *)
(* is one action; the private helpers are operators over the field record. *)
(***************************************************************************)
EXTENDS Integers, Sequences, FiniteSets, TLC

\* ---------------------------------------------------------------- bounds
\* largest capacity requested from WithCapacity in the initial states
MaxReq == 4
\* largest capacity requested when WithCapacity is exercised on its own
MaxCapReq == 130
\* number of mutating calls (pushes and pops) in one run
MaxOps == 6

\* ------------------------------------------------------- program constants
minCap == 1024

\* ------------------------------------------------------ integer bit tricks
RECURSIVE AndNat(_, _)
\* a & b for naturals
AndNat(a, b) ==
    IF a = 0 \/ b = 0 THEN 0
    ELSE (IF a % 2 = 1 /\ b % 2 = 1 THEN 1 ELSE 0) + 2 * AndNat(a \div 2, b \div 2)

RECURSIVE OrNat(_, _)
\* a | b for naturals
OrNat(a, b) ==
    IF a = 0 THEN b
    ELSE IF b = 0 THEN a
    ELSE (IF a % 2 = 1 \/ b % 2 = 1 THEN 1 ELSE 0) + 2 * OrNat(a \div 2, b \div 2)

RECURSIVE Pow2Above(_, _)
\* the smallest p * 2^k that exceeds m
Pow2Above(p, m) == IF p > m THEN p ELSE Pow2Above(2 * p, m)

\* x & m for a two's complement x (possibly negative) and a mask m >= 0:
\* only the low bits of x below the first power of two above m take part,
\* and those are x modulo that power of two.
BitAnd(x, m) == AndNat(x % Pow2Above(1, m), m)

RECURSIVE Shr(_, _)
\* x >> k for a natural x
Shr(x, k) == IF k = 0 THEN x ELSE Shr(x \div 2, k - 1)

\* ------------------------------------------------------------ the Deque
\* A []int is held as its length and its non-zero slots: make zero-fills, so a
\* slot that is absent from nz reads 0, and writing 0 to a slot removes it.
\* make([]int, n)
MakeBuf(n) == [len |-> n, nz |-> [i \in {} |-> 0]]

\* the valid indices of a slice; any other index panics
Indices(b) == 0..(b.len - 1)

\* b[i]
BufGet(b, i) == IF i \in DOMAIN b.nz THEN b.nz[i] ELSE 0

\* b[i] = v
BufSet(b, i, v) ==
    [b EXCEPT !.nz = IF v = 0
                     THEN [j \in (DOMAIN b.nz) \ {i} |-> b.nz[j]]
                     ELSE [j \in (DOMAIN b.nz) \cup {i} |-> IF j = i THEN v ELSE b.nz[j]]]

\* len(q.buf)
BufLen(d) == d.buf.len

\* new(Deque) / the zero value of Deque
ZeroDeque == [buf |-> MakeBuf(0), count |-> 0, head |-> 0, tail |-> 0, capacity |-> 0]

\* initDeque that falls back to 16 slots, the minimum the test message names
initDeque_sixteen(d, capacity) ==
    LET c == IF capacity = 0 THEN 16 ELSE capacity
    IN  [buf |-> MakeBuf(c), count |-> 0, head |-> 0, tail |-> 0, capacity |-> c]

\* initDeque on an existing object d (the q == nil branch is in the callers)
initDeque(d, capacity) ==
    LET c == IF capacity = 0 THEN minCap ELSE capacity
    IN  [buf |-> MakeBuf(c), count |-> 0, head |-> 0, tail |-> 0, capacity |-> c]

\* roundCapacity without the capacity |= capacity >> 2 step
roundCapacity_skipsShift(capacity) ==
    IF BitAnd(capacity, capacity - 1) # 0
    THEN LET c1 == OrNat(capacity, Shr(capacity, 1))
             c3 == OrNat(c1, Shr(c1, 4))
             c4 == OrNat(c3, Shr(c3, 8))
             c5 == OrNat(c4, Shr(c4, 16))
         IN  c5 + 1
    ELSE capacity

\* the capacity WithCapacity hands to initDeque
roundCapacity(capacity) ==
    IF BitAnd(capacity, capacity - 1) # 0
    THEN LET c1 == OrNat(capacity, Shr(capacity, 1))
             c2 == OrNat(c1, Shr(c1, 2))
             c3 == OrNat(c2, Shr(c2, 4))
             c4 == OrNat(c3, Shr(c3, 8))
             c5 == OrNat(c4, Shr(c4, 16))
         IN  c5 + 1
    ELSE capacity

WithCapacity(capacity) == initDeque(ZeroDeque, roundCapacity(capacity))

\* Calculates the next index pointer
next(d) ==
    IF d.count # 0 THEN BitAnd(d.tail + 1, BufLen(d) - 1) ELSE 0

\* prev with a raw decrement in place of the mask
prev_noMask(d, reference) ==
    IF d.count # 0 THEN reference - 1 ELSE 0

\* Calculates the previous index pointer
prev(d, reference) ==
    IF d.count # 0 THEN BitAnd(reference - 1, BufLen(d) - 1) ELSE 0

\* updateCount whose bound is off by one: a full deque counts one more element
updateCount_overCounts(d) ==
    IF d.count <= BufLen(d) THEN [d EXCEPT !.count = d.count + 1] ELSE d

\* Updates the element count
updateCount(d) ==
    IF d.count < BufLen(d) THEN [d EXCEPT !.count = d.count + 1] ELSE d

\* incrementPointersRight that starts moving the pointers one element late
incrementPointersRight_late(d, newIndex) ==
    IF d.count > 2
    THEN LET d1 == [d EXCEPT !.tail = newIndex]
         IN  IF d1.tail > d1.head
             THEN [d1 EXCEPT !.head = 0]
             ELSE [d1 EXCEPT !.head = next(d1)]
    ELSE d

incrementPointersRight(d, newIndex) ==
    IF d.count > 1
    THEN LET d1 == [d EXCEPT !.tail = newIndex]
         IN  IF d1.tail > d1.head
             THEN [d1 EXCEPT !.head = 0]
             ELSE [d1 EXCEPT !.head = next(d1)]
    ELSE d

\* incrementPointersLeft that leaves tail where it is when the head catches up
incrementPointersLeft_tailStays(d, newIndex) ==
    IF d.count > 1
    THEN LET d1 == [d EXCEPT !.head = newIndex]
         IN  IF d1.head > d1.tail THEN [d1 EXCEPT !.tail = 0] ELSE d1
    ELSE d

incrementPointersLeft(d, newIndex) ==
    IF d.count > 1
    THEN LET d1 == [d EXCEPT !.head = newIndex]
         IN  IF d1.head > d1.tail
             THEN [d1 EXCEPT !.tail = 0]
             ELSE [d1 EXCEPT !.tail = prev(d1, d1.head)]
    ELSE d

\* q.buf[q.head] and q.buf[q.tail]; an index outside the slice panics
\* Head that refuses an empty deque
HeadPanics_guarded(d) == d.count = 0 \/ d.head \notin Indices(d.buf)
HeadPanics(d) == d.head \notin Indices(d.buf)
TailPanics(d) == d.tail \notin Indices(d.buf)
HeadOf(d) == BufGet(d.buf, d.head)
TailOf(d) == BufGet(d.buf, d.tail)

\* slices.Contains(q.buf, key)
ContainsOf(d, key) ==
    \/ \E i \in DOMAIN d.buf.nz : d.buf.nz[i] = key
    \/ key = 0 /\ Cardinality(DOMAIN d.buf.nz) < d.buf.len

\* PushBack that doubles the storage of a full deque instead of overwriting
pushBackFields_grows(d, data) ==
    LET d0 == IF BufLen(d) = 0 THEN initDeque(d, 0)
              ELSE IF d.count = BufLen(d)
                   THEN [d EXCEPT !.buf.len = 2 * d.buf.len, !.capacity = 2 * d.capacity]
                   ELSE d
        index == next(d0)
        d1 == [d0 EXCEPT !.buf = BufSet(d0.buf, index, data)]
    IN  incrementPointersRight(updateCount(d1), index)

\* the field record after PushBack / PushFront on an existing object
pushBackFields(d, data) ==
    LET d0 == IF BufLen(d) = 0 THEN initDeque(d, 0) ELSE d
        index == next(d0)
        d1 == [d0 EXCEPT !.buf = BufSet(d0.buf, index, data)]
    IN  incrementPointersRight(updateCount(d1), index)

\* PushFront that ends with PushBack's pointer update
pushFrontFields_copied(d, data) ==
    LET d0 == IF BufLen(d) = 0 THEN initDeque(d, 0) ELSE d
        index == prev(d0, d0.head)
        d1 == [d0 EXCEPT !.buf = BufSet(d0.buf, index, data)]
    IN  incrementPointersRight(updateCount(d1), index)

pushFrontFields(d, data) ==
    LET d0 == IF BufLen(d) = 0 THEN initDeque(d, 0) ELSE d
        index == prev(d0, d0.head)
        d1 == [d0 EXCEPT !.buf = BufSet(d0.buf, index, data)]
    IN  incrementPointersLeft(updateCount(d1), index)

\* PopBack that steps the tail back without wrapping
popBackFields_noWrap(d) ==
    IF d.count # 0
    THEN LET d1 == IF d.count = 1 THEN [d EXCEPT !.tail = 0]
                   ELSE [d EXCEPT !.tail = d.tail - 1]
         IN  [d1 EXCEPT !.count = d1.count - 1]
    ELSE d

\* the slot a push writes lies outside the slice: q.buf[index] = data panics
pushBackPanics(d) ==
    LET d0 == IF BufLen(d) = 0 THEN initDeque(d, 0) ELSE d
    IN  next(d0) \notin Indices(d0.buf)

pushFrontPanics(d) ==
    LET d0 == IF BufLen(d) = 0 THEN initDeque(d, 0) ELSE d
    IN  prev(d0, d0.head) \notin Indices(d0.buf)

\* the q.Tail() / q.Head() a pop makes on a non-empty deque panics
popBackPanics(d) == d.count # 0 /\ TailPanics(d)
popFrontPanics(d) == d.count # 0 /\ HeadPanics(d)

\* the field record after PopBack / PopFront on an existing object
\* PopBack without the count != 0 test
popBackFields_alwaysDecrements(d) ==
    LET d1 == IF d.count = 1 THEN [d EXCEPT !.tail = 0]
              ELSE [d EXCEPT !.tail = prev(d, d.tail)]
    IN  [d1 EXCEPT !.count = d1.count - 1]

popBackFields(d) ==
    IF d.count # 0
    THEN LET d1 == IF d.count = 1 THEN [d EXCEPT !.tail = 0]
                   ELSE IF d.tail < d.head THEN [d EXCEPT !.tail = prev(d, d.tail)]
                   ELSE [d EXCEPT !.tail = prev(d, d.tail)]
         IN  [d1 EXCEPT !.count = d1.count - 1]
    ELSE d

\* PopFront without the count != 0 test
popFrontFields_unguarded(d) ==
    IF BufLen(d) = 0 THEN d ELSE [d EXCEPT !.head = BitAnd(d.head - 1, BufLen(d) - 1)]

popFrontFields(d) ==
    IF d.count # 0 THEN [d EXCEPT !.head = prev(d, d.head)] ELSE d

\* ---------------------------------------------------------------- state
VARIABLES
    isNil,   \* the receiver is a nil *Deque
    q0,      \* the fields right after construction
    q,       \* the fields of the Deque the receiver points to
    fault,   \* a call has panicked
    pre,     \* the fields before the last call
    last,    \* the last call: name, argument, returned value, returned error
    hist     \* the mutating calls made so far, oldest first
vars == <<isNil, q0, q, fault, pre, last, hist>>

NoCall == [op |-> "none", arg |-> 0, ret |-> 0, err |-> FALSE]
Call(op, arg, ret, err) == [op |-> op, arg |-> arg, ret |-> ret, err |-> err]

Init ==
    /\ \/ isNil = TRUE /\ q = ZeroDeque
       \/ isNil = FALSE /\ q = ZeroDeque
       \/ isNil = FALSE /\ \E n \in 0..MaxReq : q = WithCapacity(n)
    /\ q0 = q
    /\ fault = FALSE
    /\ pre = q
    /\ last = NoCall
    /\ hist = <<>>

CanMutate == ~fault /\ Len(hist) < MaxOps

\* the number of pushes made so far
Pushed == Cardinality({i \in 1..Len(hist) : hist[i][1] \in {"PushBack", "PushFront"}})

\* The methods only copy and compare the int they are given: no branch of a
\* push or pop depends on it.  The runs therefore push pairwise distinct,
\* non-zero values, 1, 2, 3, ... in call order (any other run is the image of
\* one of these under a renaming of the values), and Contains is asked for 0,
\* the content of a slot never written, and for every value pushed so far.
Fresh == {Pushed + 1}
Keys == 0..Pushed

PushBack(data) ==
    /\ CanMutate
    /\ pre' = q
    /\ hist' = Append(hist, <<"PushBack", data>>)
    /\ last' = Call("PushBack", data, 0, FALSE)
    /\ IF isNil \/ pushBackPanics(q)
       THEN \* through nil, initDeque allocates into its own parameter and its
            \* result is dropped: q stays nil and reading q.buf faults
            /\ fault' = TRUE
            /\ UNCHANGED <<isNil, q0, q>>
       ELSE /\ q' = pushBackFields(q, data)
            /\ UNCHANGED <<isNil, q0, fault>>

PushFront(data) ==
    /\ CanMutate
    /\ pre' = q
    /\ hist' = Append(hist, <<"PushFront", data>>)
    /\ last' = Call("PushFront", data, 0, FALSE)
    /\ IF isNil \/ pushFrontPanics(q)
       THEN /\ fault' = TRUE
            /\ UNCHANGED <<isNil, q0, q>>
       ELSE /\ q' = pushFrontFields(q, data)
            /\ UNCHANGED <<isNil, q0, fault>>

\* PopBack that reports no error through a nil receiver
PopBack_noError ==
    /\ CanMutate
    /\ pre' = q
    /\ hist' = Append(hist, <<"PopBack", 0>>)
    /\ last' = Call("PopBack", 0, IF ~isNil /\ q.count # 0 THEN TailOf(q) ELSE 0, FALSE)
    /\ q' = IF isNil THEN q ELSE popBackFields(q)
    /\ UNCHANGED <<isNil, q0, fault>>

PopBack ==
    /\ CanMutate
    /\ pre' = q
    /\ hist' = Append(hist, <<"PopBack", 0>>)
    /\ IF isNil
       THEN /\ last' = Call("PopBack", 0, 0, TRUE)
            /\ UNCHANGED <<isNil, q0, q, fault>>
       ELSE IF popBackPanics(q)
       THEN /\ last' = Call("PopBack", 0, 0, FALSE)
            /\ fault' = TRUE
            /\ UNCHANGED <<isNil, q0, q>>
       ELSE /\ last' = Call("PopBack", 0, IF q.count # 0 THEN TailOf(q) ELSE 0, FALSE)
            /\ q' = popBackFields(q)
            /\ UNCHANGED <<isNil, q0, fault>>

PopFront ==
    /\ CanMutate
    /\ pre' = q
    /\ hist' = Append(hist, <<"PopFront", 0>>)
    /\ IF isNil
       THEN /\ last' = Call("PopFront", 0, 0, TRUE)
            /\ UNCHANGED <<isNil, q0, q, fault>>
       ELSE IF popFrontPanics(q)
       THEN /\ last' = Call("PopFront", 0, 0, FALSE)
            /\ fault' = TRUE
            /\ UNCHANGED <<isNil, q0, q>>
       ELSE /\ last' = Call("PopFront", 0, IF q.count # 0 THEN HeadOf(q) ELSE 0, FALSE)
            /\ q' = popFrontFields(q)
            /\ UNCHANGED <<isNil, q0, fault>>

\* The inspecting calls leave the fields alone; a call through nil that reads a
\* field, or an index outside the slice, panics.
CanCall == ~fault

HeadCall ==
    /\ CanCall
    /\ pre' = q
    /\ IF isNil \/ HeadPanics(q)
       THEN /\ fault' = TRUE
            /\ last' = Call("Head", 0, 0, FALSE)
       ELSE /\ fault' = fault
            /\ last' = Call("Head", 0, HeadOf(q), FALSE)
    /\ UNCHANGED <<isNil, q0, q, hist>>

TailCall ==
    /\ CanCall
    /\ pre' = q
    /\ IF isNil \/ TailPanics(q)
       THEN /\ fault' = TRUE
            /\ last' = Call("Tail", 0, 0, FALSE)
       ELSE /\ fault' = fault
            /\ last' = Call("Tail", 0, TailOf(q), FALSE)
    /\ UNCHANGED <<isNil, q0, q, hist>>

Contains(key) ==
    /\ CanCall
    /\ pre' = q
    /\ IF isNil
       THEN /\ fault' = TRUE
            /\ last' = Call("Contains", key, 0, FALSE)
       ELSE /\ fault' = fault
            /\ last' = Call("Contains", key, IF ContainsOf(q, key) THEN 1 ELSE 0, FALSE)
    /\ UNCHANGED <<isNil, q0, q, hist>>

LenCall ==
    /\ CanCall
    /\ pre' = q
    /\ last' = Call("Len", 0, IF isNil THEN 0 ELSE q.count, FALSE)
    /\ UNCHANGED <<isNil, q0, q, fault, hist>>

CapCall ==
    /\ CanCall
    /\ pre' = q
    /\ last' = Call("Cap", 0, IF isNil THEN 0 ELSE BufLen(q), FALSE)
    /\ UNCHANGED <<isNil, q0, q, fault, hist>>

Next ==
    \/ \E v \in Fresh : PushBack(v)
    \/ \E v \in Fresh : PushFront(v)
    \/ PopBack
    \/ PopFront
    \/ HeadCall
    \/ TailCall
    \/ \E v \in Keys : Contains(v)
    \/ LenCall
    \/ CapCall

Spec == Init /\ [][Next]_vars

\* WithCapacity exercised on its own: each step constructs a deque of a
\* requested capacity and replaces the one held.
InitCap ==
    /\ isNil = FALSE
    /\ q = ZeroDeque
    /\ q0 = q
    /\ fault = FALSE
    /\ pre = q
    /\ last = NoCall
    /\ hist = <<>>

Construct(capacity) ==
    /\ q' = WithCapacity(capacity)
    /\ q0' = q'
    /\ pre' = q
    /\ last' = Call("WithCapacity", capacity, 0, FALSE)
    /\ UNCHANGED <<isNil, fault, hist>>

NextCap == \E n \in 0..MaxCapReq : Construct(n)

SpecCap == InitCap /\ [][NextCap]_vars

\* ------------------------------------------------------- derived notions
\* the receiver points to a Deque whose storage has been allocated
Initialised == ~isNil /\ BufLen(q) > 0

Min(a, b) == IF a < b THEN a ELSE b
Max(a, b) == IF a > b THEN a ELSE b

\* the reference: a bounded double-ended sequence of capacity c, front first
RefPushBack(r, v, c) == IF Len(r) >= c THEN Append(Tail(r), v) ELSE Append(r, v)
RefPushFront(r, v, c) == IF Len(r) >= c THEN <<v>> \o SubSeq(r, 1, c - 1) ELSE <<v>> \o r
RefPopBack(r) == IF r = <<>> THEN r ELSE SubSeq(r, 1, Len(r) - 1)
RefPopFront(r) == IF r = <<>> THEN r ELSE Tail(r)

RECURSIVE RefOf(_, _)
\* the reference after the calls of h
RefOf(h, c) ==
    IF h = <<>> THEN <<>>
    ELSE LET r == RefOf(SubSeq(h, 1, Len(h) - 1), c)
             e == h[Len(h)]
         IN  CASE e[1] = "PushBack" -> RefPushBack(r, e[2], c)
               [] e[1] = "PushFront" -> RefPushFront(r, e[2], c)
               [] e[1] = "PopBack" -> RefPopBack(r)
               [] e[1] = "PopFront" -> RefPopFront(r)

RECURSIVE Run(_, _)
\* the fields after the calls of h on an existing object with fields d
Run(d, h) ==
    IF h = <<>> THEN d
    ELSE LET r == Run(d, SubSeq(h, 1, Len(h) - 1))
             e == h[Len(h)]
         IN  CASE e[1] = "PushBack" -> pushBackFields(r, e[2])
               [] e[1] = "PushFront" -> pushFrontFields(r, e[2])
               [] e[1] = "PopBack" -> popBackFields(r)
               [] e[1] = "PopFront" -> popFrontFields(r)

\* the calls before the last mutating call
Earlier == SubSeq(hist, 1, Len(hist) - 1)

\* the slot k places behind the head, and k places before the tail, of d
SlotFromHead(d, k) == (d.head + k) % BufLen(d)
SlotFromTail(d, k) == (d.tail - k) % BufLen(d)

\* ------------------------------------------------------------- claims
\* C1: after any sequence of pushes and pops on an initialised deque, the
\* deque agrees with the reference bounded double-ended sequence of the same
\* capacity: Len() is the reference length, Head() and Tail() are its front
\* and back when it is non-empty, and each pop returns what the reference
\* removes.
C1_AgreesWithReference ==
    (Initialised /\ ~fault) =>
        LET c == BufLen(q)
            r == RefOf(hist, c)
            rb == RefOf(Earlier, c)
        IN  /\ q.count = Len(r)
            /\ Len(r) > 0 => HeadOf(q) = r[1] /\ TailOf(q) = r[Len(r)]
            /\ (last.op = "PopBack" /\ rb # <<>>) => last.ret = rb[Len(rb)] /\ ~last.err
            /\ (last.op = "PopFront" /\ rb # <<>>) => last.ret = rb[1] /\ ~last.err

\* C2: in a full deque of capacity at least 2, PushBack leaves count at
\* capacity, advances head and tail by one slot modulo capacity and overwrites
\* exactly the slot that held the front element; PushFront leaves count at
\* capacity, moves head and tail back by one slot and overwrites exactly the
\* slot that held the back element.
C2_FullPushShiftsBothPointers ==
    (~isNil /\ ~fault /\ BufLen(pre) >= 2 /\ pre.count = BufLen(pre)) =>
        LET c == BufLen(pre)
        IN  /\ last.op = "PushBack" =>
                  /\ q.count = c
                  /\ q.head = (pre.head + 1) % c
                  /\ q.tail = (pre.tail + 1) % c
                  /\ q.buf = BufSet(pre.buf, pre.head, last.arg)
            /\ last.op = "PushFront" =>
                  /\ q.count = c
                  /\ q.head = (pre.head - 1) % c
                  /\ q.tail = (pre.tail - 1) % c
                  /\ q.buf = BufSet(pre.buf, pre.tail, last.arg)

\* every call so far was op, and there was at least one
OnlyCalls(op) == ~isNil /\ hist # <<>> /\ \A i \in 1..Len(hist) : hist[i][1] = op

C5_PopFront ==
    (~isNil /\ last.op = "PopFront" /\ pre.count > 0) =>
        /\ ~fault
        /\ last.ret = HeadOf(pre) /\ ~last.err
        /\ q.count = pre.count - 1
        /\ TailOf(q) = TailOf(pre)
        /\ BufLen(q) = BufLen(pre)
        /\ q.count > 0 => HeadOf(q) = BufGet(pre.buf, SlotFromHead(pre, 1))

\* the slots of the live elements: count slots from head on, in ring order
Live(d) == {SlotFromHead(d, k) : k \in 0..(d.count - 1)}

\* C6: PopBack on a non-empty deque returns the value Tail() returned before
\* the call and no error, decreases Len() by one, leaves the head index and
\* Cap() unchanged and, when elements remain, makes Tail() the element of the
\* slot one before the old tail in ring order (the second from the back).
C6_PopBack ==
    (~isNil /\ last.op = "PopBack" /\ pre.count > 0) =>
        /\ ~fault
        /\ last.ret = TailOf(pre) /\ ~last.err
        /\ q.count = pre.count - 1
        /\ q.head = pre.head
        /\ BufLen(q) = BufLen(pre)
        /\ q.buf = pre.buf
        /\ q.count > 0 =>
              /\ HeadOf(q) = HeadOf(pre)
              /\ q.tail = SlotFromTail(pre, 1)
              /\ TailOf(q) = BufGet(pre.buf, SlotFromTail(pre, 1))

\* C6 witness: PopBack has shrunk a deque whose tail was at slot 0, so the new
\* tail wrapped to the last slot
C6_Witness ==
    /\ ~isNil /\ last.op = "PopBack" /\ pre.count > 1
    /\ pre.tail = 0 /\ q.tail = BufLen(q) - 1 /\ TailOf(q) # TailOf(pre)

\* C7: Contains(v) is true exactly when v is one of the Len() live elements,
\* the slots from head to tail in ring order.
C7_ContainsLiveOnly ==
    (Initialised /\ ~fault /\ last.op = "Contains") =>
        (last.ret = 1 <=> \E i \in Live(q) : BufGet(q.buf, i) = last.arg)

\* every call so far was a push, and there was at least one
OnlyPushes ==
    ~isNil /\ hist # <<>> /\ \A i \in 1..Len(hist) : hist[i][1] \in {"PushBack", "PushFront"}

\* the argument of the latest op call of the history
RECURSIVE LastArg(_, _)
LastArg(h, op) ==
    IF h[Len(h)][1] = op THEN h[Len(h)][2] ELSE LastArg(SubSeq(h, 1, Len(h) - 1), op)

\* C8: on a non-empty deque that is not full, PushBack leaves the head index
\* and Head() unchanged and PushFront leaves the tail index and Tail()
\* unchanged; so pushes on a fresh deque that do not exceed capacity leave
\* Tail() at the last value pushed at the back and Head() at the last value
\* pushed at the front.
C8_PushMovesOneEnd ==
    /\ (~isNil /\ ~fault /\ pre.count > 0 /\ pre.count < BufLen(pre)) =>
          /\ last.op = "PushBack" => q.head = pre.head /\ HeadOf(q) = HeadOf(pre)
          /\ last.op = "PushFront" => q.tail = pre.tail /\ TailOf(q) = TailOf(pre)
    /\ (OnlyPushes /\ q0.count = 0 /\ Len(hist) <= BufLen(q)) =>
          /\ (\E i \in 1..Len(hist) : hist[i][1] = "PushBack") =>
                TailOf(q) = LastArg(hist, "PushBack")
          /\ (\E i \in 1..Len(hist) : hist[i][1] = "PushFront") =>
                HeadOf(q) = LastArg(hist, "PushFront")

\* C9: PushBack(v) immediately followed by PopBack() returns v and no error,
\* and when the deque was not full before the push, Len() after the pop is
\* Len() before the push.
C9_PushBackPopBack ==
    (~isNil /\ last.op = "PopBack" /\ Len(hist) >= 2
        /\ hist[Len(hist) - 1][1] = "PushBack") =>
        LET before == Run(q0, SubSeq(hist, 1, Len(hist) - 2))
        IN  /\ ~fault
            /\ last.ret = hist[Len(hist) - 1][2] /\ ~last.err
            /\ (BufLen(before) = 0 \/ before.count < BufLen(before)) =>
                  q.count = before.count

\* C9 witness: a value was pushed at the back of a deque that already held
\* elements and had room, and PopBack took it off again
C9_Witness ==
    /\ ~isNil /\ last.op = "PopBack" /\ Len(hist) >= 3
    /\ hist[Len(hist) - 1][1] = "PushBack"
    /\ last.ret = hist[Len(hist) - 1][2] /\ q.count > 0 /\ q.count + 1 < BufLen(q)

RECURSIVE Pow2(_)
Pow2(k) == IF k = 0 THEN 1 ELSE 2 * Pow2(k - 1)

\* the smallest power of two that is at least n, for 1 <= n <= 2^12
SmallestPow2AtLeast(n) ==
    CHOOSE p \in {Pow2(k) : k \in 0..12} :
        p >= n /\ \A r \in {Pow2(k) : k \in 0..12} : r >= n => p <= r

\* C11: WithCapacity(n).Cap() is 1024 for n = 0 and otherwise the smallest
\* power of two that is at least n (n itself when n is a power of two, 1
\* included); the new deque has Len() = 0.
C11_WithCapacity ==
    last.op = "WithCapacity" =>
        /\ BufLen(q) = (IF last.arg = 0 THEN 1024 ELSE SmallestPow2AtLeast(last.arg))
        /\ q.capacity = BufLen(q)
        /\ q.count = 0
        /\ q.buf = MakeBuf(BufLen(q))

\* C11 witness: a request that is not a power of two and needs more than one
\* shift step was rounded up
C11_Witness == last.op = "WithCapacity" /\ last.arg = 100 /\ BufLen(q) = 128
\* the last call was a push
LastIsPush == last.op \in {"PushBack", "PushFront"}

LastIsPop == last.op \in {"PopBack", "PopFront"}

\* C13: PopBack and PopFront on an existing deque holding no element
\* (zero-value or initialised) return (0, nil) and leave buf, head, tail,
\* count and capacity unchanged.
C13_PopEmpty ==
    (~isNil /\ LastIsPop /\ pre.count = 0) =>
        /\ ~fault
        /\ last.ret = 0 /\ ~last.err
        /\ q = pre

\* C13 witness: PopFront on an initialised deque that pops had emptied, with
\* head away from slot 0 and a stale value still stored
C13_Witness ==
    /\ ~isNil /\ last.op = "PopFront" /\ pre.count = 0
    /\ BufLen(q) > 0 /\ Pushed > 0 /\ q.head # 0 /\ HeadOf(q) # 0

\* C14: through a nil *Deque, PopBack and PopFront return the zero value and
\* a non-nil error, Len() and Cap() return 0, and none of the four faults.
C14_NilReceiver ==
    (isNil /\ last.op \in {"PopBack", "PopFront", "Len", "Cap"}) =>
        /\ ~fault
        /\ last.ret = 0
        /\ LastIsPop <=> last.err
        /\ q = pre

\* C14 witness: PopBack, then PopFront, through the nil receiver
C14_Witness ==
    /\ isNil /\ ~fault /\ last.op = "PopFront" /\ last.err
    /\ Len(hist) >= 2 /\ hist[1][1] = "PopBack"
\* the last call was Head() or Tail()
LastIsPeek == last.op \in {"Head", "Tail"}

\* C15 as stated: Head() or Tail() on any existing instance whose count is 0
\* (zero-value, freshly constructed, or emptied by pops) faults and never
\* returns a value.
C15_PeekEmptyFaults ==
    (~isNil /\ LastIsPeek /\ q.count = 0) => fault

\* C15 as amended: Head() or Tail() on an existing instance whose count is 0
\* faults exactly when no storage was ever allocated (the zero value);
\* on an initialised deque it returns the content of slot head or tail, which
\* is 0 on a freshly constructed deque.
C15_PeekEmptyFaultsOnlyUnallocated ==
    (~isNil /\ LastIsPeek /\ q.count = 0) =>
        /\ fault <=> BufLen(q) = 0
        /\ (BufLen(q) > 0 /\ last.op = "Head") => last.ret = BufGet(q.buf, q.head)
        /\ (BufLen(q) > 0 /\ last.op = "Tail") => last.ret = BufGet(q.buf, q.tail)
        /\ (BufLen(q) > 0 /\ Pushed = 0) => last.ret = 0

\* C15 witness: Head() on a deque emptied by pops returned a value pushed
\* earlier
C15_Witness ==
    /\ ~isNil /\ last.op = "Head" /\ q.count = 0 /\ ~fault
    /\ Pushed > 0 /\ last.ret # 0
\* C16: in every reachable state 0 <= count <= capacity, with capacity =
\* len(buf): pushes never raise count above capacity and pops never lower it
\* below 0.
C16_CountInRange ==
    ~isNil =>
        /\ 0 <= q.count /\ q.count <= q.capacity
        /\ q.capacity = BufLen(q)
        /\ LastIsPush => q.count = Min(pre.count + 1, BufLen(q))
        /\ last.op = "PopBack" => q.count = Max(pre.count - 1, 0)

\* C16 witness: a pop on an empty deque left count at 0 after pushes had
\* overflowed the deque and left count at capacity
C16_Witness ==
    /\ ~isNil /\ LastIsPop /\ pre.count = 0 /\ q.count = 0
    /\ Pushed > BufLen(q) /\ BufLen(q) >= 2
\* the last k mutating calls were pops
EndsWithPops(h, k) ==
    k <= Len(h) /\ \A i \in (Len(h) - k + 1)..Len(h) : h[i][1] \in {"PopBack", "PopFront"}

\* h is k pops made on an initialised deque that held exactly k elements
Drained(h, k) ==
    /\ k >= 1 /\ EndsWithPops(h, k)
    /\ LET b == Run(q0, SubSeq(h, 1, Len(h) - k))
       IN  BufLen(b) > 0 /\ b.count = k

\* C17: n pops, from either end in any order, on an initialised deque with
\* Len() = n leave Len() = 0, and PushBack(a), PushFront(b), PushBack(c) after
\* that give Len() = 3, Head() = b and Tail() = c.
C17_DrainThenPush ==
    ~isNil =>
        /\ \A k \in 1..Len(hist) : Drained(hist, k) => q.count = 0
        /\ (Len(hist) >= 4
              /\ hist[Len(hist) - 2][1] = "PushBack"
              /\ hist[Len(hist) - 1][1] = "PushFront"
              /\ hist[Len(hist)][1] = "PushBack"
              /\ \E k \in 1..(Len(hist) - 3) :
                    Drained(SubSeq(hist, 1, Len(hist) - 3), k)) =>
              /\ q.count = 3
              /\ HeadOf(q) = hist[Len(hist) - 1][2]
              /\ TailOf(q) = hist[Len(hist)][2]

\* C18: whenever count > 0, tail = head + count - 1 modulo capacity.
C18_PointerRelation ==
    (~isNil /\ q.count > 0) => q.tail = (q.head + q.count - 1) % BufLen(q)

\* C19: a push on an initialised deque with count = 0, however it became
\* empty, writes the value at slot 0 and gives Len() = 1 with Head() and
\* Tail() both the value.
C19_PushOnEmpty ==
    (~isNil /\ BufLen(pre) > 0 /\ pre.count = 0 /\ LastIsPush) =>
        /\ ~fault
        /\ q.buf = BufSet(pre.buf, 0, last.arg)
        /\ q.count = 1
        /\ HeadOf(q) = last.arg
        /\ TailOf(q) = last.arg
\* C20: on a non-empty initialised deque, full or not, the value just pushed
\* is at the end it was pushed to: after PushBack(v), Tail() returns v, and
\* after PushFront(v), Head() returns v, also when the push follows a pop at
\* the same end.
C20_PushedValueAtItsEnd ==
    (~isNil /\ BufLen(pre) > 0 /\ pre.count > 0) =>
        /\ last.op = "PushBack" => ~fault /\ ~TailPanics(q) /\ TailOf(q) = last.arg
        /\ last.op = "PushFront" => ~fault /\ ~HeadPanics(q) /\ HeadOf(q) = last.arg

\* C20 witness: PushFront on a full deque, right after a PopFront, with the
\* pushed value now at the head
C20_Witness ==
    /\ ~isNil /\ last.op = "PushFront" /\ pre.count = BufLen(pre) /\ BufLen(pre) >= 2
    /\ hist[Len(hist) - 1][1] = "PopFront"
    /\ HeadOf(q) = last.arg
\* C21: on an initialised deque head and tail are always valid slot indices,
\* every index next() and prev() compute is one too (never negative, also
\* when stepping back from slot 0), and no PushBack, PushFront, PopBack,
\* PopFront, Head or Tail call faults on an out-of-bounds access.
C21_IndicesInBounds ==
    Initialised =>
        /\ ~fault
        /\ 0 <= q.head /\ q.head < q.capacity
        /\ 0 <= q.tail /\ q.tail < q.capacity
        /\ q.head \in Indices(q.buf) /\ q.tail \in Indices(q.buf)
        /\ next(q) \in Indices(q.buf)
        /\ prev(q, q.head) \in Indices(q.buf)
        /\ prev(q, q.tail) \in Indices(q.buf)
        /\ ~pushBackPanics(q) /\ ~pushFrontPanics(q)
        /\ ~popBackPanics(q) /\ ~popFrontPanics(q)
        /\ ~HeadPanics(q) /\ ~TailPanics(q)

\* C21 witness: after a PushFront and a PopFront the head stands at the last
\* slot, reached by stepping back past slot 0, and Head() was then called
C21_Witness ==
    /\ Initialised /\ last.op = "Head" /\ ~fault
    /\ BufLen(q) >= 2 /\ q.count >= 2
    /\ q.head = BufLen(q) - 1
    /\ \E i \in 1..Len(hist) : hist[i][1] = "PushFront"
    /\ \E i \in 1..Len(hist) : hist[i][1] = "PopFront"

\* C22: PushBack and PushFront through a nil *Deque initialise a deque and
\* complete without faulting.
C22_PushThroughNil ==
    (isNil /\ LastIsPush) => ~fault
====
